---- MODULE Spec2Model ----
(***************************************************************************)
(* Food Brand E-Commerce API (src/main.py, src/schemas.py).                *)
(*                                                                         *)
(* State: the two collections of the document store ("product", "order")  *)
(* and the response of the last request served.  One action per endpoint  *)
(* (list_products, checkout, seed_products); a second specification,      *)
(* SpecConc, splits seed_products into its separate store operations so   *)
(* that several invocations interleave.                                   *)
(*                                                                         *)
(* Money: price, subtotal, shipping and total are Python floats; they are *)
(* modelled as exact integers (cents for the demo catalogue).             *)
(* Optional[T]: None is <<>>, a given value v is <<v>>.                   *)
(***************************************************************************)
EXTENDS Integers, Sequences, FiniteSets, TLC

VARIABLES product, order, resp, seedPc, seedIdx, seedResp

vars == <<product, order, resp, seedPc, seedIdx, seedResp>>

\* ---------------------------------------------------------------- bounds
MaxOrders == 2      \* checkout is not offered once the order collection holds this many
MaxLimit == 2       \* listProducts is called with limit in 0..MaxLimit or the default
NumSeeders == 2     \* concurrent seedProducts invocations in SpecConc

\* ------------------------------------------------------------- constants
DefaultLimit == 50

None == <<>>
Some(v) == <<v>>

Min(a, b) == IF a <= b THEN a ELSE b

\* ------------------------------------------------------------- schemas.py
\* Product: price >= 0 (title, category required; the rest defaulted).
ProductValid(d) ==
    /\ {"title", "price", "category"} \subseteq DOMAIN d
    /\ d.price >= 0

OrderItemValid_NoQuantity(it) == it.price >= 0

\* OrderItem: price >= 0, quantity >= 1.
OrderItemValid(it) == it.price >= 0 /\ it.quantity >= 1

\* EmailStr: a syntactically valid address.
ValidEmails == {"ana@example.com"}
EmailStrValid(e) == e \in ValidEmails

\* Order: EmailStr email, subtotal >= 0, shipping >= 0, total >= 0.
OrderValid(o) ==
    /\ EmailStrValid(o.email)
    /\ o.subtotal >= 0
    /\ o.shipping >= 0
    /\ o.total >= 0

\* ------------------------------------------------------- document store
\* create_document(collection, record): the collection with the record
\* appended under a store-assigned identifier.
NextId(coll) == Len(coll) + 1
create_document(coll, doc) == Append(coll, [_id |-> NextId(coll)] @@ doc)

Pop(d, key) == [k \in (DOMAIN d) \ {key} |-> d[k]]

\* A filter is a record of optional equality clauses.
Matches(d, filter) ==
    /\ (filter.category # None => d.category = filter.category[1])
    /\ (filter.featured # None => d.featured = filter.featured[1])

\* get_documents(collection, filter, limit): the first `limit` matching records.
get_documents(coll, filter, limit) ==
    LET hits == SelectSeq(coll, LAMBDA d : Matches(d, filter))
    IN  SubSeq(hits, 1, Min(limit, Len(hits)))

EmptyFilter == [category |-> None, featured |-> None]

\* ------------------------------------------------------------ responses
NoResp ==
    [op |-> "none", status |-> 0, message |-> "", order_id |-> 0, writes |-> 0,
     email |-> "", items |-> <<>>,
     category |-> None, featured |-> None, limit |-> 0,
     query |-> EmptyFilter, products |-> <<>>]

\* ---------------------------------------------------------- list_products
\* `if category:` -- a str is truthy when it is given and not empty.
Truthy(category) == category # None /\ category[1] # ""

BuildQuery_TruthyFeatured(category, featured) ==
    [category |-> IF Truthy(category) THEN category ELSE None,
     featured |-> IF featured # None /\ featured[1] THEN featured ELSE None]

BuildQuery_NoFeatured(category, featured) ==
    [category |-> IF Truthy(category) THEN category ELSE None,
     featured |-> None]

\* query = {}; if category: ...; if featured is not None: ...
BuildQuery(category, featured) ==
    [category |-> IF Truthy(category) THEN category ELSE None,
     featured |-> IF featured # None THEN featured ELSE None]

list_docs_default(coll, category, featured, limit) ==
    get_documents(coll, BuildQuery(category, featured), DefaultLimit)

list_docs(coll, category, featured, limit) ==
    get_documents(coll, BuildQuery(category, featured), limit)

Categories == {None, Some(""), Some("snacks")}
Featureds == {None, Some(TRUE), Some(FALSE)}
Limits == (0..MaxLimit) \cup {DefaultLimit}

list_products(category, featured, limit, storeOk) ==
    LET docs == list_docs(product, category, featured, limit)
        products == [i \in 1..Len(docs) |-> Pop(docs[i], "_id")]
        ok == storeOk /\ \A i \in 1..Len(products) : ProductValid(products[i])
        args == [NoResp EXCEPT !.op = "list", !.category = category,
                               !.featured = featured, !.limit = limit,
                               !.query = BuildQuery(category, featured)]
    IN  /\ resp' = IF ok
                   THEN [args EXCEPT !.status = 200, !.products = products]
                   ELSE [args EXCEPT !.status = 500]
        /\ UNCHANGED <<product, order, seedPc, seedIdx, seedResp>>

\* --------------------------------------------------------------- checkout
ItemA == [product_id |-> "p1", title |-> "Spicy Chili Chips", price |-> 3, quantity |-> 2, image |-> None]
ItemB == [product_id |-> "p2", title |-> "Free Sample", price |-> 0, quantity |-> 1, image |-> None]
ItemNegPrice == [product_id |-> "p3", title |-> "Refund", price |-> -1, quantity |-> 1, image |-> None]
ItemZeroQty == [product_id |-> "p4", title |-> "Nothing", price |-> 3, quantity |-> 0, image |-> None]

Carts ==
    { <<>>, <<ItemA>>, <<ItemA, ItemB>>, <<ItemB, ItemA, ItemA>>,
      <<ItemNegPrice>>, <<ItemZeroQty>>, <<ItemA, ItemNegPrice>>,
      <<ItemZeroQty, ItemA>>, <<ItemA, ItemB, ItemZeroQty>> }

Emails == {"ana@example.com", "not-an-email"}

Payloads ==
    [customer_name : {"Ana"}, email : Emails, address : {"1 Main St"},
     city : {"Lisbon"}, country : {"PT"}, items : Carts]

LineTotal_PriceOnly(it) == it.price

LineTotal(it) == it.price * it.quantity

\* The for loop: stops at the first item OrderItem rejects.
RECURSIVE CheckoutLoop(_, _, _)
CheckoutLoop(rest, items, subtotal) ==
    IF rest = <<>> THEN [ok |-> TRUE, items |-> items, subtotal |-> subtotal]
    ELSE IF ~OrderItemValid(Head(rest))
         THEN [ok |-> FALSE, items |-> items, subtotal |-> subtotal]
         ELSE CheckoutLoop(Tail(rest), Append(items, Head(rest)),
                           subtotal + LineTotal(Head(rest)))

MakeOrder_FlatShipping(payload, items, subtotal) ==
    [customer_name |-> payload.customer_name, email |-> payload.email,
     address |-> payload.address, city |-> payload.city,
     country |-> payload.country, items |-> items, subtotal |-> subtotal,
     shipping |-> 5, total |-> subtotal + 5, status |-> "pending"]

MakeOrder(payload, items, subtotal) ==
    [customer_name |-> payload.customer_name, email |-> payload.email,
     address |-> payload.address, city |-> payload.city,
     country |-> payload.country, items |-> items, subtotal |-> subtotal,
     shipping |-> 0, total |-> subtotal, status |-> "pending"]

\* The try block up to the Order constructor: the validated order, or failure.
CheckoutTry(payload) ==
    LET loop == CheckoutLoop(payload.items, <<>>, 0)
        o == MakeOrder(payload, loop.items, loop.subtotal)
    IN  [ok |-> loop.ok /\ OrderValid(o), order |-> o]

CheckoutPersist_Partial(coll, r, storeOk) ==
    IF storeOk THEN create_document(coll, r.order) ELSE coll

\* The order collection after the handler: one write, only of a validated order.
CheckoutPersist(coll, r, storeOk) ==
    IF r.ok /\ storeOk THEN create_document(coll, r.order) ELSE coll

checkout(payload, storeOk) ==
    LET r == CheckoutTry(payload)
        args == [NoResp EXCEPT !.op = "checkout", !.email = payload.email,
                               !.items = payload.items]
    IN  /\ Len(order) < MaxOrders
        /\ order' = CheckoutPersist(order, r, storeOk)
        /\ resp' = IF r.ok /\ storeOk
                   THEN [args EXCEPT !.status = 200, !.order_id = NextId(order)]
                   ELSE [args EXCEPT !.status = 500]
        /\ UNCHANGED <<product, seedPc, seedIdx, seedResp>>

\* ---------------------------------------------------------- seed_products
sample ==
    << [title |-> "Spicy Chili Chips", description |-> Some("Crunchy chips with a fiery chili kick."),
        price |-> 399, category |-> "snacks", in_stock |-> TRUE,
        image |-> Some("https://images.unsplash.com/photo-1604908177073-b5c2b6ed83e6?w=800"), featured |-> TRUE],
       [title |-> "Organic Granola", description |-> Some("Honey-sweetened granola with nuts and seeds."),
        price |-> 650, category |-> "breakfast", in_stock |-> TRUE,
        image |-> Some("https://images.unsplash.com/photo-1517677208171-0bc6725a3e60?w=800"), featured |-> TRUE],
       [title |-> "Tomato Basil Soup", description |-> Some("Slow-simmered tomato soup with fresh basil."),
        price |-> 475, category |-> "meals", in_stock |-> TRUE,
        image |-> Some("https://images.unsplash.com/photo-1547592166-23ac45744acd?w=800"), featured |-> FALSE],
       [title |-> "Mango Smoothie", description |-> Some("Creamy mango smoothie with yogurt."),
        price |-> 525, category |-> "drinks", in_stock |-> TRUE,
        image |-> Some("https://images.unsplash.com/photo-1467453678174-768ec283a940?w=800"), featured |-> FALSE] >>

SeedExisting_LimitZero(coll) == get_documents(coll, EmptyFilter, 0)

\* existing = get_documents("product", {}, limit=1)
SeedExisting(coll) == get_documents(coll, EmptyFilter, 1)

\* if existing:
SeedGuard(existing) == existing # <<>>

SeedWrites_Batched(coll, n) ==
    IF n < Len(sample) THEN coll
    ELSE create_document(create_document(create_document(create_document(
             coll, sample[1]), sample[2]), sample[3]), sample[4])

\* The collection after the first n iterations of `for p in sample`.
RECURSIVE SeedWrites(_, _)
SeedWrites(coll, n) ==
    IF n = 0 THEN coll
    ELSE create_document(SeedWrites(coll, n - 1), sample[n])

\* One whole invocation; the store raises on the read (readOk = FALSE) or on
\* the write that follows `written` successful ones (written < Len(sample)).
seed_products(readOk, written) ==
    LET args == [NoResp EXCEPT !.op = "seed"]
    IN  /\ IF ~readOk
           THEN /\ resp' = [args EXCEPT !.status = 500]
                /\ UNCHANGED product
           ELSE IF SeedGuard(SeedExisting(product))
           THEN /\ resp' = [args EXCEPT !.status = 200, !.message = "Products already exist"]
                /\ UNCHANGED product
           ELSE /\ product' = SeedWrites(product, written)
                /\ resp' = IF written = Len(sample)
                           THEN [args EXCEPT !.status = 200, !.writes = written,
                                             !.message = "Seeded products"]
                           ELSE [args EXCEPT !.status = 500, !.writes = written]
        /\ UNCHANGED <<order, seedPc, seedIdx, seedResp>>

\* ------------------------------------------------- sequential requests
Init ==
    /\ product = <<>>
    /\ order = <<>>
    /\ resp = NoResp
    /\ seedPc = [p \in 1..NumSeeders |-> "idle"]
    /\ seedIdx = [p \in 1..NumSeeders |-> 0]
    /\ seedResp = [p \in 1..NumSeeders |-> ""]

ListStep ==
    \E category \in Categories, featured \in Featureds, limit \in Limits, storeOk \in BOOLEAN :
        list_products(category, featured, limit, storeOk)

CheckoutStep ==
    \E payload \in Payloads, storeOk \in BOOLEAN : checkout(payload, storeOk)

SeedStep ==
    \E readOk \in BOOLEAN, written \in 0..Len(sample) : seed_products(readOk, written)

Next == ListStep \/ CheckoutStep \/ SeedStep

Spec == Init /\ [][Next]_vars

\* ------------------------------------- concurrent seedProducts invocations
\* Each invocation runs in its own worker thread; its existence check and
\* each of its writes is a separate store operation.
SeedCheck(p, readOk) ==
    /\ seedPc[p] = "idle"
    /\ IF ~readOk
       THEN /\ seedPc' = [seedPc EXCEPT ![p] = "done"]
            /\ seedResp' = [seedResp EXCEPT ![p] = "error"]
       ELSE IF SeedGuard(SeedExisting(product))
       THEN /\ seedPc' = [seedPc EXCEPT ![p] = "done"]
            /\ seedResp' = [seedResp EXCEPT ![p] = "Products already exist"]
       ELSE /\ seedPc' = [seedPc EXCEPT ![p] = "writing"]
            /\ UNCHANGED seedResp
    /\ UNCHANGED <<product, order, resp, seedIdx>>

SeedWrite(p, writeOk) ==
    /\ seedPc[p] = "writing"
    /\ IF ~writeOk
       THEN /\ seedPc' = [seedPc EXCEPT ![p] = "done"]
            /\ seedResp' = [seedResp EXCEPT ![p] = "error"]
            /\ UNCHANGED <<product, seedIdx>>
       ELSE /\ product' = create_document(product, sample[seedIdx[p] + 1])
            /\ seedIdx' = [seedIdx EXCEPT ![p] = @ + 1]
            /\ IF seedIdx[p] + 1 = Len(sample)
               THEN /\ seedPc' = [seedPc EXCEPT ![p] = "done"]
                    /\ seedResp' = [seedResp EXCEPT ![p] = "Seeded products"]
               ELSE UNCHANGED <<seedPc, seedResp>>
    /\ UNCHANGED <<order, resp>>

SeedCheckStep == \E p \in 1..NumSeeders, readOk \in BOOLEAN : SeedCheck(p, readOk)

SeedWriteStep == \E p \in 1..NumSeeders, writeOk \in BOOLEAN : SeedWrite(p, writeOk)

NextConc == SeedCheckStep \/ SeedWriteStep

SpecConc == Init /\ [][NextConc]_vars

\* ================================================================ claims
HasInvalidItem(items) ==
    \E i \in 1..Len(items) : items[i].quantity <= 0 \/ items[i].price < 0

RECURSIVE SumOfLines(_)
SumOfLines(items) ==
    IF items = <<>> THEN 0
    ELSE Head(items).price * Head(items).quantity + SumOfLines(Tail(items))

IsSamplePrefix(coll) ==
    /\ Len(coll) <= Len(sample)
    /\ \A i \in 1..Len(coll) : Pop(coll[i], "_id") = sample[i]

\* C1: after a successful checkout the Order persisted under the returned
\* order_id carries the request's items and a subtotal equal to the sum, in
\* input order, of price * quantity over them (0 for an empty list).
C1_SubtotalIsSum ==
    (resp.op = "checkout" /\ resp.status = 200) =>
        /\ ~HasInvalidItem(resp.items)
        /\ resp.order_id \in 1..Len(order)
        /\ order[resp.order_id]._id = resp.order_id
        /\ order[resp.order_id].items = resp.items
        /\ order[resp.order_id].subtotal = SumOfLines(resp.items)

C1_Witness ==
    /\ resp.op = "checkout" /\ resp.status = 200
    /\ Len(resp.items) = 3
    /\ order[resp.order_id].subtotal = 12

\* C2: every Order in the order collection has shipping 0, total equal to
\* subtotal (and to subtotal + shipping) and status "pending".
C2_OrderTotals ==
    \A i \in 1..Len(order) :
        /\ order[i].shipping = 0
        /\ order[i].total = order[i].subtotal
        /\ order[i].total = order[i].subtotal + order[i].shipping
        /\ order[i].status = "pending"

C2_Witness ==
    /\ Len(order) >= 2
    /\ order[2].subtotal > 0
    /\ product # <<>>
    /\ resp.op = "list"

\* C3: a checkout whose item list holds an item with quantity <= 0 or
\* price < 0, at any position, answers with an error and leaves the order
\* collection as it was.
C3_InvalidItemRejected ==
    [][(resp'.op = "checkout" /\ HasInvalidItem(resp'.items)) =>
            (resp'.status = 500 /\ order' = order)]_vars

C3_Witness ==
    /\ resp.op = "checkout" /\ resp.status = 500
    /\ EmailStrValid(resp.email)
    /\ Len(resp.items) >= 2
    /\ ~HasInvalidItem(<<resp.items[1]>>)
    /\ HasInvalidItem(resp.items)
    /\ Len(order) >= 1

\* C4: a checkout that succeeds appends exactly one Order and one that fails
\* changes nothing; either way the Orders already stored stay as they were,
\* in place, and the product collection is unchanged.
C4_CheckoutFrame ==
    [][resp'.op = "checkout" =>
            /\ product' = product
            /\ IF resp'.status = 200
               THEN /\ Len(order') = Len(order) + 1
                    /\ SubSeq(order', 1, Len(order)) = order
               ELSE order' = order]_vars

C4_Witness ==
    /\ resp.op = "checkout" /\ resp.status = 200
    /\ Len(order) >= 2
    /\ resp.order_id = Len(order)

\* C5: a seedProducts call on an empty product collection that meets no
\* store failure writes the four demo products; a call that starts with a
\* non-empty product collection writes nothing and, when its read succeeds,
\* answers "Products already exist".
C5_SeedTwice ==
    [][resp'.op = "seed" =>
            /\ (product = <<>> /\ resp'.status = 200) =>
                    /\ resp'.message = "Seeded products"
                    /\ Len(product') = Len(sample)
                    /\ IsSamplePrefix(product')
            /\ product # <<>> =>
                    /\ product' = product
                    /\ resp'.writes = 0
                    /\ (resp'.status = 200 => resp'.message = "Products already exist")]_vars

C5_Witness ==
    /\ resp.op = "seed" /\ resp.status = 200
    /\ resp.message = "Products already exist"
    /\ Len(product) = Len(sample)

\* C6 as claimed: whenever a category argument is given every returned
\* record has that category, and whenever a featured argument is given every
\* returned record has that featured value.
C6_Original ==
    (resp.op = "list" /\ resp.status = 200) =>
        /\ resp.category # None =>
               \A i \in 1..Len(resp.products) : resp.products[i].category = resp.category[1]
        /\ resp.featured # None =>
               \A i \in 1..Len(resp.products) : resp.products[i].featured = resp.featured[1]

\* C6 as amended: whenever a non-empty category argument is given every
\* returned record has that category, and whenever a featured argument is
\* given (true or false) every returned record has that featured value.
C6_FilterApplied ==
    (resp.op = "list" /\ resp.status = 200) =>
        /\ (resp.category # None /\ resp.category # Some("")) =>
               \A i \in 1..Len(resp.products) : resp.products[i].category = resp.category[1]
        /\ resp.featured # None =>
               \A i \in 1..Len(resp.products) : resp.products[i].featured = resp.featured[1]

C6_Witness ==
    /\ resp.op = "list" /\ resp.status = 200
    /\ resp.category = Some("snacks")
    /\ resp.featured = None
    /\ Len(product) = Len(sample)
    /\ Len(resp.products) = 1

C8_Original ==
    resp.op = "list" =>
        /\ (resp.query.category # None) <=> (resp.category # None)
        /\ (resp.query.featured # None) <=> (resp.featured # None)

\* C8 as amended: the filter holds a category clause, with the given value,
\* exactly when a non-empty category argument was given, and a featured
\* clause, with the given value, exactly when a featured argument was given.
C8_FilterClauses ==
    resp.op = "list" =>
        /\ (resp.query.category # None) <=> (resp.category # None /\ resp.category # Some(""))
        /\ (resp.query.category # None) => resp.query.category = resp.category
        /\ (resp.query.featured # None) <=> (resp.featured # None)
        /\ (resp.query.featured # None) => resp.query.featured = resp.featured

C8_Witness ==
    /\ resp.op = "list"
    /\ resp.category = Some("") /\ resp.query.category = None
    /\ resp.featured = Some(FALSE) /\ resp.query.featured = Some(FALSE)

C10_Original ==
    /\ Len(product) <= Len(sample)
    /\ \A i, j \in 1..Len(product) :
           product[i].title = product[j].title => i = j

====
